---------------------------- MODULE Spec2Model ----------------------------
(***************************************************************************)
(* State-machine model of five parts of RLgraph / YARL:                    *)
(*   - the RingBuffer memory (yarl/components/memories/ring_buffer.py, as  *)
(*     exercised by yarl/tests/test_ring_buffer.py),                       *)
(*   - SingleThreadedWorker._execute and its two entry points              *)
(*     (yarl/execution/single_threaded_worker.py),                         *)
(*   - PPOLossFunction (rlgraph/components/loss_functions),                *)
(*   - MultiGpuSyncOptimizer (rlgraph/components/optimizers),              *)
(*   - IMPALAAgent: its constructor, and the explorer/learner pipeline     *)
(*     around the shared FIFOQueue (rlgraph/agents/impala_agent.py).       *)
(* Each part has its own specification; the variables of the other parts   *)
(* stay at their initial value.                                            *)
(***************************************************************************)
EXTENDS Integers, Sequences, FiniteSets

VARIABLES
    rb,      \* the RingBuffer component and the history of its inserts
    w,       \* the SingleThreadedWorker run (locals of _execute, call log)
    ppo,     \* the PPOLossFunction call (inputs, outputs)
    mg,      \* the MultiGpuSyncOptimizer and the result of its update call
    agent,   \* one IMPALAAgent under construction
    pipe     \* IMPALA explorers and learner around the shared FIFOQueue

vars == <<rb, w, ppo, mg, agent, pipe>>

\* Python's None where a count is expected: no count is negative.
None == -1

Min(a, b) == IF a <= b THEN a ELSE b

Max(a, b) == IF a >= b THEN a ELSE b

(***************************************************************************)
(* Bounds of the model.                                                    *)
(***************************************************************************)
MaxCapacity == 3
MaxBatchSize == 3
MaxInserts == 3

(***************************************************************************)
(* RingBuffer.                                                             *)
(***************************************************************************)
\* capacity = 10 of TestRingBufferMemory
TestCapacity == 10

\* record_space.sample(size=100): the batch larger than the capacity
TestLargeBatch == 100

Capacities == (1..MaxCapacity) \cup {TestCapacity}

BatchSizes(capacity) == (1..MaxBatchSize) \cup {capacity + 1, TestLargeBatch}

RingBufferInitFull(capacity, episode_semantics) ==
    [capacity |-> capacity,
     episode_semantics |-> episode_semantics,
     size |-> capacity,
     index |-> 0,
     memory |-> [s \in 0..(capacity - 1) |-> 0]]

\* RingBuffer(capacity, episode_semantics) after the component test has built
\* it: both counters are 0 and no slot holds a record (0 = empty slot).
RingBufferInit(capacity, episode_semantics) ==
    [capacity |-> capacity,
     episode_semantics |-> episode_semantics,
     size |-> 0,
     index |-> 0,
     memory |-> [s \in 0..(capacity - 1) |-> 0]]

\* ring_buffer.get_variables(): the names of the state variables it exposes.
GetVariables(buf) ==
    IF buf.episode_semantics
    THEN <<"size", "index", "num-episodes", "episode-indices">>
    ELSE <<"size", "index">>

GetVariableValues(buf) ==
    [k \in 1..Len(GetVariables(buf)) |->
        IF GetVariables(buf)[k] = "size" THEN buf.size
        ELSE IF GetVariables(buf)[k] = "index" THEN buf.index
        ELSE 0]

UpdateIndicesNoModulo(buf, num_records) ==
    [j \in 1..num_records |-> buf.index + (j - 1)]

\* The slots a batch of num_records records is written to, in record order:
\* range(index, index + num_records) % capacity.
UpdateIndices(buf, num_records) ==
    [j \in 1..num_records |-> (buf.index + (j - 1)) % buf.capacity]

\* Writing to a slot outside the buffer is the error of an insert.
IndicesInRange(buf, indices) ==
    \A j \in 1..Len(indices) : indices[j] \in 0..(buf.capacity - 1)

\* The slots after scattering the records first_id, first_id + 1, ... to
\* indices: a slot written more than once keeps the last record written.
ScatterUpdate(buf, indices, first_id) ==
    [s \in 0..(buf.capacity - 1) |->
        LET js == {j \in 1..Len(indices) : indices[j] = s}
        IN  IF js = {} THEN buf.memory[s]
            ELSE first_id + (CHOOSE j \in js : \A k \in js : k <= j) - 1]

NewSizeUnbounded(buf, num_records) == buf.size + num_records

NewSize(buf, num_records) == Min(buf.size + num_records, buf.capacity)

NewIndexNoModulo(buf, num_records) == buf.index + num_records

NewIndex(buf, num_records) == (buf.index + num_records) % buf.capacity

\* The whole insert: records, then index and size.
InsertRecords(buf, num_records, first_id) ==
    [buf EXCEPT !.memory = ScatterUpdate(buf, UpdateIndices(buf, num_records), first_id),
                !.index = NewIndex(buf, num_records),
                !.size = NewSize(buf, num_records)]

RingBufferIdle ==
    [buffer |-> RingBufferInit(1, FALSE), inserted |-> 0, num_inserts |-> 0,
     last_batch |-> 0, last_insert |-> "none"]

RBInit ==
    /\ \E capacity \in Capacities, episode_semantics \in BOOLEAN :
          rb = [buffer |-> RingBufferInit(capacity, episode_semantics),
                inserted |-> 0, num_inserts |-> 0,
                last_batch |-> 0, last_insert |-> "none"]

\* test.test(out_socket_name="insert", inputs=<num_records records>)
Insert(num_records) ==
    /\ rb.num_inserts < MaxInserts
    /\ rb.last_insert # "error"
    /\ IF IndicesInRange(rb.buffer, UpdateIndices(rb.buffer, num_records))
       THEN rb' = [rb EXCEPT
                    !.buffer = InsertRecords(rb.buffer, num_records, rb.inserted + 1),
                    !.inserted = rb.inserted + num_records,
                    !.num_inserts = rb.num_inserts + 1,
                    !.last_batch = num_records,
                    !.last_insert = "ok"]
       ELSE rb' = [rb EXCEPT
                    !.num_inserts = rb.num_inserts + 1,
                    !.last_batch = num_records,
                    !.last_insert = "error"]
    /\ UNCHANGED <<w, ppo, mg, agent, pipe>>

RBInsert ==
    \E num_records \in BatchSizes(rb.buffer.capacity) : Insert(num_records)

(***************************************************************************)
(* Properties of the RingBuffer.                                           *)
(***************************************************************************)
\* C1: after any sequence of inserts into a buffer that started empty, size
\* equals min(capacity, number of records inserted so far); it never exceeds
\* the capacity and is the capacity after capacity + 1 records.
C1_SizeIsMinCapacityInserted ==
    /\ rb.buffer.size = Min(rb.buffer.capacity, rb.inserted)
    /\ rb.buffer.size <= rb.buffer.capacity

C1_Witness ==
    /\ rb.buffer.capacity = TestCapacity
    /\ rb.num_inserts = 1
    /\ rb.inserted = TestCapacity + 1
    /\ rb.last_insert = "ok"
    /\ rb.buffer.size = TestCapacity

\* C2: after any sequence of inserts into a buffer that started empty, the
\* write index equals (number of records inserted so far) modulo capacity,
\* hence lies in 0..capacity-1; it is 1 after capacity + 1 records.
C2_IndexIsInsertedModCapacity ==
    /\ rb.buffer.index = rb.inserted % rb.buffer.capacity
    /\ rb.buffer.index \in 0..(rb.buffer.capacity - 1)

C2_Witness ==
    /\ rb.buffer.capacity = TestCapacity
    /\ rb.num_inserts = 1
    /\ rb.inserted = TestCapacity + 1
    /\ rb.last_insert = "ok"
    /\ rb.buffer.index = 1

\* C3: a fresh RingBuffer without episode semantics exposes exactly the two
\* variables size and index, and both are 0 before any insert.
C3_FreshBufferTwoZeroVariables ==
    (rb.num_inserts = 0 /\ ~rb.buffer.episode_semantics) =>
        /\ GetVariables(rb.buffer) = <<"size", "index">>
        /\ GetVariableValues(rb.buffer) = <<0, 0>>

C3_Witness ==
    /\ rb.num_inserts = 0
    /\ ~rb.buffer.episode_semantics
    /\ rb.buffer.capacity = TestCapacity
    /\ Len(GetVariables(rb.buffer)) = 2

MaxNumTimesteps == 3
MaxNumEpisodes == 3
MaxPerEpisode == 3
MaxRepeatActions == 2
MaxExecuted == 5

\* Values a caller passes for num_timesteps, num_episodes and
\* max_timesteps_per_episode: None or a count.
NumTimestepsArgs == {None} \cup (0..MaxNumTimesteps)

NumEpisodesArgs == {None} \cup (0..MaxNumEpisodes)

PerEpisodeArgs == {None} \cup (0..MaxPerEpisode)

\* Python's `x or 0`.
OrZero(x) == IF x = None THEN 0 ELSE x

\* The worker before any call; repeat_actions is set by the constructor.
WorkerInit(repeat_actions) ==
    [pc |-> "idle",
     entry |-> "none",
     repeat_actions |-> repeat_actions,
     arg_num_timesteps |-> None,
     arg_num_episodes |-> None,
     arg_max_timesteps_per_episode |-> None,
     num_timesteps |-> 0,
     num_episodes |-> 0,
     max_timesteps_per_episode |-> 0,
     timesteps_executed |-> 0,
     episodes_executed |-> 0,
     env_frames |-> 0,
     episode_timestep |-> 0,
     terminal |-> FALSE,
     episode_steps |-> <<>>,
     calls |-> {},
     results |-> [timesteps_executed |-> None, env_frames |-> None,
                 episodes_executed |-> None]]

WorkerIdle == WorkerInit(1)

\* The parameters as _execute receives them.
CallArgs(l, entry, num_timesteps, num_episodes, max_timesteps_per_episode) ==
    [l EXCEPT !.entry = entry,
              !.arg_num_timesteps = num_timesteps,
              !.arg_num_episodes = num_episodes,
              !.arg_max_timesteps_per_episode = max_timesteps_per_episode]

\* A bug variant: the update schedule is set before the arguments are checked.
ExecuteAssertLate(l, entry, num_timesteps, num_episodes, max_timesteps_per_episode) ==
    LET c == [CallArgs(l, entry, num_timesteps, num_episodes, max_timesteps_per_episode)
                EXCEPT !.calls = {"set_update_schedule"}]
    IN  IF ~(num_timesteps # None \/ num_episodes # None)
        THEN [c EXCEPT !.pc = "assert_failed"]
        ELSE [c EXCEPT !.pc = "while",
                       !.num_timesteps = OrZero(num_timesteps),
                       !.num_episodes = OrZero(num_episodes),
                       !.max_timesteps_per_episode = OrZero(max_timesteps_per_episode)]

\* _execute up to its main loop: the assertion, the update schedule, the
\* defaults of the three limits and the zeroed statistics.
Execute(l, entry, num_timesteps, num_episodes, max_timesteps_per_episode) ==
    LET c == CallArgs(l, entry, num_timesteps, num_episodes, max_timesteps_per_episode)
    IN  IF ~(num_timesteps # None \/ num_episodes # None)
        THEN [c EXCEPT !.pc = "assert_failed"]
        ELSE [c EXCEPT !.pc = "while",
                       !.calls = {"set_update_schedule"},
                       !.num_timesteps = OrZero(num_timesteps),
                       !.num_episodes = OrZero(num_episodes),
                       !.max_timesteps_per_episode = OrZero(max_timesteps_per_episode),
                       !.timesteps_executed = 0,
                       !.episodes_executed = 0,
                       !.env_frames = 0,
                       !.episode_steps = <<>>]

\* 0 < num_timesteps <= timesteps_executed
TimestepsReached(l) ==
    0 < l.num_timesteps /\ l.num_timesteps <= l.timesteps_executed

EpisodeLimitOffByOne(l) ==
    0 < l.max_timesteps_per_episode /\ l.max_timesteps_per_episode < l.episode_timestep

\* 0 < max_timesteps_per_episode <= episode_timestep
EpisodeLimitReached(l) ==
    0 < l.max_timesteps_per_episode /\ l.max_timesteps_per_episode <= l.episode_timestep

EpisodeFinishedIgnoringNumTimesteps(l) ==
    l.terminal \/ EpisodeLimitReached(l)

\* The condition that breaks the inner loop.
EpisodeFinished(l) ==
    l.terminal \/ TimestepsReached(l) \/ EpisodeLimitReached(l)

EpisodesReachedOffByOne(l) ==
    0 < l.num_episodes /\ l.num_episodes < l.episodes_executed

\* 0 < num_episodes <= episodes_executed
EpisodesReached(l) ==
    0 < l.num_episodes /\ l.num_episodes <= l.episodes_executed

\* The results dict, reduced to its counters.
Results(l) ==
    [timesteps_executed |-> l.timesteps_executed,
     env_frames |-> l.env_frames,
     episodes_executed |-> l.episodes_executed]

WInit ==
    \E repeat_actions \in 1..MaxRepeatActions : w = WorkerInit(repeat_actions)

\* worker.execute_timesteps(num_timesteps, max_timesteps_per_episode)
ExecuteTimesteps ==
    /\ w.pc = "idle"
    /\ \E num_timesteps \in NumTimestepsArgs, max_timesteps_per_episode \in PerEpisodeArgs :
          w' = Execute(w, "execute_timesteps", num_timesteps, None, max_timesteps_per_episode)
    /\ UNCHANGED <<rb, ppo, mg, agent, pipe>>

\* worker.execute_episodes(num_episodes, max_timesteps_per_episode)
ExecuteEpisodes ==
    /\ w.pc = "idle"
    /\ \E num_episodes \in NumEpisodesArgs, max_timesteps_per_episode \in PerEpisodeArgs :
          w' = Execute(w, "execute_episodes", None, num_episodes, max_timesteps_per_episode)
    /\ UNCHANGED <<rb, ppo, mg, agent, pipe>>

\* worker._execute(num_timesteps, num_episodes, max_timesteps_per_episode)
ExecuteDirect ==
    /\ w.pc = "idle"
    /\ \E num_timesteps \in NumTimestepsArgs, num_episodes \in NumEpisodesArgs,
          max_timesteps_per_episode \in PerEpisodeArgs :
          w' = Execute(w, "_execute", num_timesteps, num_episodes, max_timesteps_per_episode)
    /\ UNCHANGED <<rb, ppo, mg, agent, pipe>>

\* The outer while condition holds: a new episode starts with a reset.
StartEpisode ==
    /\ w.pc = "while"
    /\ ~TimestepsReached(w)
    /\ w' = [w EXCEPT !.pc = "episode",
                      !.episode_timestep = 0,
                      !.terminal = FALSE,
                      !.calls = w.calls \cup {"environment.reset"}]
    /\ UNCHANGED <<rb, ppo, mg, agent, pipe>>

\* The outer while condition fails.
LoopExit ==
    /\ w.pc = "while"
    /\ TimestepsReached(w)
    /\ w' = [w EXCEPT !.pc = "finish"]
    /\ UNCHANGED <<rb, ppo, mg, agent, pipe>>

\* One pass of the inner loop: get_action, up to repeat_actions environment
\* steps (frames of them are taken; fewer than repeat_actions only when the
\* environment signals terminal), observe, update_if_necessary, the counters
\* and the break test.
Step ==
    /\ w.pc = "episode"
    /\ w.timesteps_executed < MaxExecuted
    /\ \E frames \in 1..w.repeat_actions, terminal \in BOOLEAN :
          /\ frames < w.repeat_actions => terminal
          /\ LET l == [w EXCEPT
                        !.calls = w.calls \cup {"agent.get_action", "environment.step",
                                                "agent.observe", "update_if_necessary"},
                        !.env_frames = w.env_frames + frames,
                        !.terminal = terminal,
                        !.timesteps_executed = w.timesteps_executed + 1,
                        !.episode_timestep = w.episode_timestep + 1]
             IN  w' = [l EXCEPT !.pc = IF EpisodeFinished(l) THEN "episode_end" ELSE "episode"]
    /\ UNCHANGED <<rb, ppo, mg, agent, pipe>>

\* After the inner loop: the episode is counted and the episode limit tested.
EndEpisode ==
    /\ w.pc = "episode_end"
    /\ LET l == [w EXCEPT !.episodes_executed = w.episodes_executed + 1,
                          !.episode_steps = Append(w.episode_steps, w.episode_timestep)]
       IN  w' = [l EXCEPT !.pc = IF EpisodesReached(l) THEN "finish" ELSE "while"]
    /\ UNCHANGED <<rb, ppo, mg, agent, pipe>>

\* The results are built and returned.
Finish ==
    /\ w.pc = "finish"
    /\ w' = [w EXCEPT !.pc = "done", !.results = Results(w)]
    /\ UNCHANGED <<rb, ppo, mg, agent, pipe>>

(***************************************************************************)
(* Properties of SingleThreadedWorker.                                     *)
(***************************************************************************)
Running == w.pc \notin {"idle", "assert_failed"}

\* C5: execute_timesteps(n) with n > 0 never executes more than n timesteps:
\* timesteps_executed <= n at every point of the run, no further pass of the
\* inner loop is due once timesteps_executed is n, whether or not the episode
\* has ended, and the returned timesteps_executed is n.
C5_ExecuteTimestepsStopsAtN ==
    (Running /\ w.entry = "execute_timesteps" /\ w.arg_num_timesteps > 0) =>
        /\ w.timesteps_executed <= w.arg_num_timesteps
        /\ (w.timesteps_executed = w.arg_num_timesteps => w.pc # "episode")
        /\ (w.pc = "done" => w.results.timesteps_executed = w.arg_num_timesteps)

C5_Witness ==
    /\ w.entry = "execute_timesteps"
    /\ w.arg_num_timesteps >= 2
    /\ w.pc = "done"
    /\ w.results.timesteps_executed = w.arg_num_timesteps
    /\ ~w.terminal
    /\ w.episode_timestep >= 2
    /\ w.arg_max_timesteps_per_episode = 0

\* C6: execute_episodes(n) with n > 0 runs at most n episodes and, once all
\* of them have ended, returns with episodes_executed equal to n.
C6_ExecuteEpisodesRunsN ==
    (Running /\ w.entry = "execute_episodes" /\ w.arg_num_episodes > 0) =>
        /\ w.episodes_executed <= w.arg_num_episodes
        /\ Len(w.episode_steps) = w.episodes_executed
        /\ (w.pc \in {"episode", "episode_end"} => w.episodes_executed < w.arg_num_episodes)
        /\ (w.pc \in {"finish", "done"} => w.episodes_executed = w.arg_num_episodes)
        /\ (w.pc = "done" => w.results.episodes_executed = w.arg_num_episodes)

C6_Witness ==
    /\ w.entry = "execute_episodes"
    /\ w.arg_num_episodes >= 2
    /\ w.pc = "done"
    /\ w.results.episodes_executed = w.arg_num_episodes
    /\ \E i \in 1..Len(w.episode_steps) : w.episode_steps[i] >= 2

\* C7: with max_timesteps_per_episode = m > 0 no episode has more than m
\* timesteps (it is ended when its step count reaches m, terminal or not);
\* with None or 0 the worker never ends an episode for its length: an inner
\* loop that ended did so on a terminal step or on num_timesteps.
C7_EpisodeLengthLimit ==
    Running =>
        /\ w.arg_max_timesteps_per_episode > 0 =>
              /\ w.episode_timestep <= w.arg_max_timesteps_per_episode
              /\ \A i \in 1..Len(w.episode_steps) :
                    w.episode_steps[i] <= w.arg_max_timesteps_per_episode
              /\ (w.pc = "episode" =>
                    w.episode_timestep < w.arg_max_timesteps_per_episode)
        /\ w.arg_max_timesteps_per_episode \in {None, 0} =>
              (w.pc = "episode_end" =>
                  \/ w.terminal
                  \/ (0 < w.num_timesteps /\ w.num_timesteps <= w.timesteps_executed))

C7_Witness ==
    /\ w.pc = "episode_end"
    /\ w.arg_max_timesteps_per_episode >= 2
    /\ w.episode_timestep = w.arg_max_timesteps_per_episode
    /\ ~w.terminal
    /\ ~(0 < w.num_timesteps /\ w.num_timesteps <= w.timesteps_executed)

\* C8: _execute needs num_timesteps or num_episodes: with both None it fails
\* its assertion before the update schedule is set, before the environment
\* is reset or stepped and before any agent method is called; with one of
\* them given the assertion passes.
C8_BothNoneFailsBeforeAnyCall ==
    w.pc # "idle" =>
        /\ (w.arg_num_timesteps = None /\ w.arg_num_episodes = None) =>
              /\ w.pc = "assert_failed"
              /\ w.calls = {}
              /\ w.env_frames = 0
              /\ w.timesteps_executed = 0
        /\ (w.arg_num_timesteps # None \/ w.arg_num_episodes # None) =>
              /\ w.pc # "assert_failed"
              /\ "set_update_schedule" \in w.calls

C8_Witness ==
    /\ w.pc = "assert_failed"
    /\ w.entry = "_execute"
    /\ w.arg_num_timesteps = None
    /\ w.arg_num_episodes = None
    /\ w.calls = {}

(***************************************************************************)
(* PPOLossFunction.                                                        *)
(*                                                                         *)
(* Numbers are exact fractions over fixed denominators:                    *)
(*   - a log-probability is written by the integer a in 1..MaxProb and     *)
(*     stands for ln(a / MaxProb);                                         *)
(*   - a likelihood ratio is a numerator over ProbDen;                     *)
(*   - clip_ratio is a numerator over ClipDen;                             *)
(*   - weight_entropy is a numerator over WeightDen;                       *)
(*   - a policy loss is a numerator over LossDen;                          *)
(*   - advantages (rewards), entropies and baseline values are integers.   *)
(* The action space has rank 1: one log-probability per batch item.        *)
(***************************************************************************)
MaxProb == 3
MaxAdvantage == 1
MaxBatchLen == 2

\* clip_ratio=0.2 is 1/5
ClipDen == 5

\* weight_entropy default 0.00025 is 1/4000
WeightDen == 4000

DefaultClipRatio == 1

DefaultWeightEntropy == 1

RECURSIVE Factorial(_)
Factorial(n) == IF n <= 1 THEN 1 ELSE n * Factorial(n - 1)

\* Every b in 1..MaxProb divides ProbDen.
ProbDen == Factorial(MaxProb)

LossDen == ProbDen * ClipDen * WeightDen

RECURSIVE SumSeq(_)
SumSeq(xs) == IF xs = <<>> THEN 0 ELSE xs[1] + SumSeq(Tail(xs))

\* PPOLossFunction(clip_ratio, weight_entropy)
PPOLossFunctionInit(clip_ratio, weight_entropy) ==
    [clip_ratio |-> clip_ratio,
     weight_entropy |-> IF weight_entropy # None THEN weight_entropy
                        ELSE DefaultWeightEntropy]

\* exp(log_probs - prev_log_probs), over ProbDen: exp(ln(a/M) - ln(b/M)) = a/b.
Ratio(log_probs, prev_log_probs) == (log_probs * ProbDen) \div prev_log_probs

ClippedAdvantagesSwapped(self, pg_advantages) ==
    IF pg_advantages > 0
    THEN (ClipDen - self.clip_ratio) * pg_advantages
    ELSE (ClipDen + self.clip_ratio) * pg_advantages

\* where(pg_advantages > 0, (1 + clip_ratio) * pg_advantages,
\*       (1 - clip_ratio) * pg_advantages), over ClipDen.
ClippedAdvantages(self, pg_advantages) ==
    IF pg_advantages > 0
    THEN (ClipDen + self.clip_ratio) * pg_advantages
    ELSE (ClipDen - self.clip_ratio) * pg_advantages

\* _graph_fn_loss_per_item for one batch item, over LossDen:
\* -minimum(ratio * pg_advantages, clipped_advantages) + weight_entropy * entropy.
PolicyLossOfItem(self, log_probs, prev_log_probs, pg_advantages, entropy) ==
    LET ratio == Ratio(log_probs, prev_log_probs)
        clipped_advantages == ClippedAdvantages(self, pg_advantages)
        loss == -Min(ratio * pg_advantages * ClipDen * WeightDen,
                     clipped_advantages * ProbDen * WeightDen)
    IN  loss + self.weight_entropy * entropy * ProbDen * ClipDen

\* _graph_fn_loss_per_item over the batch.
GraphFnLossPerItem(self, log_probs, prev_log_probs, pg_advantages, entropy) ==
    [i \in 1..Len(log_probs) |->
        PolicyLossOfItem(self, log_probs[i], prev_log_probs[i], pg_advantages[i], entropy[i])]

\* squeeze(baseline_values, axis=-1): [batch, 1] to [batch].
Squeeze(baseline_values) ==
    [i \in 1..Len(baseline_values) |-> baseline_values[i][1]]

\* _graph_fn_baseline_loss_per_item: (v_targets - baseline_values) ** 2 with
\* v_targets = pg_advantages + baseline_values.
GraphFnBaselineLossPerItem(baseline_values, pg_advantages) ==
    LET squeezed == Squeeze(baseline_values)
        v_targets == [i \in 1..Len(squeezed) |-> pg_advantages[i] + squeezed[i]]
    IN  [i \in 1..Len(squeezed) |->
            (v_targets[i] - squeezed[i]) * (v_targets[i] - squeezed[i])]

\* _graph_fn_average_over_container_keys: a single (non-container) action
\* space has one key, whose loss is passed through.
AverageOverContainerKeys(loss_per_item) == loss_per_item

\* loss_average: the mean over the batch, as the fraction sum / batch size.
LossAverage(loss_per_item) ==
    [num |-> SumSeq(loss_per_item), den |-> Len(loss_per_item)]

\* loss_per_item(log_probs, prev_log_probs, baseline_values, rewards, entropy)
LossPerItem(self, log_probs, prev_log_probs, baseline_values, rewards, entropy) ==
    LET baseline_loss_per_item == GraphFnBaselineLossPerItem(baseline_values, rewards)
        loss_per_item == GraphFnLossPerItem(self, log_probs, prev_log_probs, rewards, entropy)
    IN  <<AverageOverContainerKeys(loss_per_item), baseline_loss_per_item>>

LossBaselineAveragedFromPolicy(self, log_probs, prev_log_probs, baseline_values, rewards, entropy) ==
    LET per_item == LossPerItem(self, log_probs, prev_log_probs, baseline_values, rewards, entropy)
    IN  <<LossAverage(per_item[1]), per_item[1], LossAverage(per_item[1]), per_item[2]>>

\* loss(log_probs, prev_log_probs, baseline_values, rewards, entropy)
Loss(self, log_probs, prev_log_probs, baseline_values, rewards, entropy) ==
    LET per_item == LossPerItem(self, log_probs, prev_log_probs, baseline_values, rewards, entropy)
        loss_per_item == per_item[1]
        baseline_loss_per_item == per_item[2]
        total_loss == LossAverage(loss_per_item)
        total_baseline_loss == LossAverage(baseline_loss_per_item)
    IN  <<total_loss, loss_per_item, total_baseline_loss, baseline_loss_per_item>>

\* The batch items the calls are made with.
Items ==
    [log_probs : 1..MaxProb, prev_log_probs : 1..MaxProb,
     rewards : (-MaxAdvantage)..MaxAdvantage, entropy : {0, 1},
     baseline_values : {<<0>>, <<1>>}]

\* Items of the batches of two and more.
BatchItems ==
    {it \in Items : /\ it.log_probs \in {1, MaxProb}
                    /\ it.prev_log_probs \in {1, MaxProb - 1}
                    /\ it.rewards \in {-1, 1}
                    /\ it.entropy = 1
                    /\ it.baseline_values = <<1>>}

Batches ==
    {<<it>> : it \in Items} \cup
    UNION {[1..n -> BatchItems] : n \in 2..MaxBatchLen}

ClipRatios == 0..(ClipDen - 1)

WeightEntropies == {None, 0, WeightDen}

Column(batch, field) == [i \in 1..Len(batch) |-> batch[i][field]]

PPOIdle ==
    [pc |-> "idle", self |-> PPOLossFunctionInit(DefaultClipRatio, None),
     batch |-> <<>>, api |-> "none", out |-> <<>>]

PPOInit ==
    \E clip_ratio \in ClipRatios, weight_entropy \in WeightEntropies, batch \in Batches :
        /\ Len(batch) > 1 => (clip_ratio = DefaultClipRatio /\ weight_entropy = None)
        /\ ppo = [pc |-> "idle",
                  self |-> PPOLossFunctionInit(clip_ratio, weight_entropy),
                  batch |-> batch, api |-> "none", out |-> <<>>]

\* A call of the API method loss_per_item.
CallLossPerItem ==
    /\ ppo.pc = "idle"
    /\ ppo' = [ppo EXCEPT
                !.pc = "done",
                !.api = "loss_per_item",
                !.out = LossPerItem(ppo.self, Column(ppo.batch, "log_probs"),
                                    Column(ppo.batch, "prev_log_probs"),
                                    Column(ppo.batch, "baseline_values"),
                                    Column(ppo.batch, "rewards"),
                                    Column(ppo.batch, "entropy"))]
    /\ UNCHANGED <<rb, w, mg, agent, pipe>>

\* A call of the API method loss.
CallLoss ==
    /\ ppo.pc = "idle"
    /\ ppo' = [ppo EXCEPT
                !.pc = "done",
                !.api = "loss",
                !.out = Loss(ppo.self, Column(ppo.batch, "log_probs"),
                             Column(ppo.batch, "prev_log_probs"),
                             Column(ppo.batch, "baseline_values"),
                             Column(ppo.batch, "rewards"),
                             Column(ppo.batch, "entropy"))]
    /\ UNCHANGED <<rb, w, mg, agent, pipe>>

(***************************************************************************)
(* Properties of PPOLossFunction.                                          *)
(***************************************************************************)
\* clip(x, lo, hi)
Clip(x, lo, hi) == Max(lo, Min(x, hi))

\* The PPO clipped surrogate objective of one item, over LossDen:
\* -min(r * A, clip(r, 1 - e, 1 + e) * A) + weight_entropy * entropy.
ClippedSurrogate(self, item) ==
    LET r == Ratio(item.log_probs, item.prev_log_probs) * ClipDen
        lo == (ClipDen - self.clip_ratio) * ProbDen
        hi == (ClipDen + self.clip_ratio) * ProbDen
        A == item.rewards
    IN  -Min(r * A, Clip(r, lo, hi) * A) * WeightDen
        + self.weight_entropy * item.entropy * ProbDen * ClipDen

\* C9: the per-item policy loss is the PPO clipped surrogate objective: for
\* every ratio r > 0, advantage A and clip_ratio e in [0, 1),
\* -min(r*A, c) with c = (1+e)*A if A > 0 else (1-e)*A, plus the entropy
\* term, equals -min(r*A, clip(r, 1-e, 1+e)*A) plus the same entropy term.
C9_PolicyLossIsClippedSurrogate ==
    (ppo.pc = "done" /\ ppo.api = "loss_per_item") =>
        \A i \in 1..Len(ppo.batch) :
            ppo.out[1][i] = ClippedSurrogate(ppo.self, ppo.batch[i])

\* The ratio is above 1 + e and the advantage negative: the clip is active
\* and the unclipped term is the minimum.
C9_Witness ==
    /\ ppo.pc = "done"
    /\ ppo.api = "loss_per_item"
    /\ Len(ppo.batch) = 1
    /\ ppo.self.clip_ratio > 0
    /\ ppo.batch[1].rewards < 0
    /\ Ratio(ppo.batch[1].log_probs, ppo.batch[1].prev_log_probs) * ClipDen
          > (ClipDen + ppo.self.clip_ratio) * ProbDen
    /\ ppo.out[1][1] = ClippedSurrogate(ppo.self, ppo.batch[1])

\* C10: loss returns (total loss, loss per item, total baseline loss,
\* baseline loss per item): the totals are the batch averages of the
\* per-item policy loss and of the per-item baseline loss, and both per-item
\* outputs have one entry per batch item.
C10_LossReturnsFourValuesInOrder ==
    (ppo.pc = "done" /\ ppo.api = "loss") =>
        LET n == Len(ppo.batch)
            policy == [i \in 1..n |-> ClippedSurrogate(ppo.self, ppo.batch[i])]
            baseline == [i \in 1..n |-> ppo.batch[i].rewards * ppo.batch[i].rewards]
        IN  /\ Len(ppo.out) = 4
            /\ ppo.out[2] = policy
            /\ ppo.out[4] = baseline
            /\ Len(ppo.out[2]) = n
            /\ Len(ppo.out[4]) = n
            /\ ppo.out[1] = [num |-> SumSeq(policy), den |-> n]
            /\ ppo.out[3] = [num |-> SumSeq(baseline), den |-> n]

C10_Witness ==
    /\ ppo.pc = "done"
    /\ ppo.api = "loss"
    /\ Len(ppo.batch) >= 2
    /\ Len(ppo.out) = 4
    /\ ppo.out[2][1] # ppo.out[2][2]
    /\ ppo.out[1].num # ppo.out[3].num
    /\ ppo.out[1].num = ppo.out[2][1] + ppo.out[2][2]

(***************************************************************************)
(* MultiGpuSyncOptimizer.                                                  *)
(*                                                                         *)
(* Python lists are sequences, so towers[i] of the code is towers[i + 1]   *)
(* here.  A batch is the sequence of its items, an item is a number; a     *)
(* shard is a contiguous part of the batch.  Averages are exact fractions  *)
(* [num, den].                                                             *)
(***************************************************************************)
MaxGpus == 3
MaxBatchItems == 4
MaxVars == 2
MaxRest == 2
NumExplorers == 2
MaxFifoCapacity == 3
MaxFifoBatchSize == 2
MaxRecords == 4

\* MultiGpuSyncOptimizer(): no towers, no devices, no splitter yet.  An unset
\* towers or gpu_devices list is the empty sequence.
MultiGpuSyncOptimizerInit ==
    [towers |-> <<>>,
     gpu_devices |-> <<>>,
     num_gpus |-> 0,
     batch_splitter |-> None]

\* BatchSplitter(num_shards), written by its number of shards.
BatchSplitter(num_shards) == num_shards

SetReplicasSplitterBeforeAssert(self, towers, devices) ==
    LET s == [self EXCEPT !.towers = towers,
                          !.gpu_devices = devices,
                          !.num_gpus = Len(devices),
                          !.batch_splitter = BatchSplitter(Len(devices))]
    IN  [self |-> s,
         raised |-> IF ~(s.num_gpus > 1) THEN "AssertionError" ELSE "none"]

\* set_replicas(towers, loss_name, devices): the attributes are assigned,
\* then num_gpus > 1 is asserted, then the BatchSplitter is created.
SetReplicasOp(self, towers, devices) ==
    LET s == [self EXCEPT !.towers = towers,
                          !.gpu_devices = devices,
                          !.num_gpus = Len(devices)]
    IN  IF ~(s.num_gpus > 1)
        THEN [self |-> s, raised |-> "AssertionError"]
        ELSE [self |-> [s EXCEPT !.batch_splitter = BatchSplitter(s.num_gpus)],
              raised |-> "none"]

\* batch_splitter.split_batch: the batch cut into num_shards contiguous,
\* non-empty shards that together are the batch (the concatenation of the
\* shards regenerates the un-split batch).  The sizes are the splitter's.
ShardSizes(num_shards, n) ==
    {sizes \in [1..num_shards -> 1..n] : SumSeq(sizes) = n}

ShardsOf(batch, sizes) ==
    [i \in 1..Len(sizes) |->
        SubSeq(batch, SumSeq(SubSeq(sizes, 1, i - 1)) + 1,
                      SumSeq(SubSeq(sizes, 1, i)))]

SplitBatch(num_shards, batch) ==
    {ShardsOf(batch, sizes) : sizes \in ShardSizes(num_shards, Len(batch))}

\* What a tower computes.  reporting[k] says which towers have a gradient
\* for variable k; the variables are shared, variable k is written k.
Reportings == {"all", "but_first", "only_first", "none"}

Reports(tower, reporting) ==
    \/ reporting = "all"
    \/ reporting = "but_first" /\ tower # 1
    \/ reporting = "only_first" /\ tower = 1

GradOf(tower, k) == 10 * tower + k

LossOfItem(item) == 100 + item

RestOfItem(j, item) == 1000 * j + item

TowerGradsAndVars(tower, env) ==
    [k \in 1..Len(env.reporting) |->
        [grad |-> IF Reports(tower, env.reporting[k]) THEN GradOf(tower, k) ELSE None,
         var |-> k]]

\* tower.update_from_external_batch(*shard_data): (grads_and_vars, loss,
\* loss_per_item, *rest); every rest value has one entry per shard item.
UpdateFromExternalBatch(tower, shard_data, env) ==
    [r \in 1..(3 + env.num_rest) |->
        IF r = 1 THEN TowerGradsAndVars(tower, env)
        ELSE IF r = 2 THEN SumSeq([x \in 1..Len(shard_data) |-> LossOfItem(shard_data[x])])
        ELSE IF r = 3 THEN [x \in 1..Len(shard_data) |-> LossOfItem(shard_data[x])]
        ELSE [x \in 1..Len(shard_data) |-> RestOfItem(r - 3, shard_data[x])]]

\* tf.concat(values, axis=0)
RECURSIVE Concat(_)
Concat(values) ==
    IF values = <<>> THEN <<>> ELSE Head(values) \o Concat(Tail(values))

RECURSIVE Reverse(_)
Reverse(values) ==
    IF values = <<>> THEN <<>> ELSE Append(Reverse(Tail(values)), Head(values))

IsGrad(grad) == grad # None

SumGrad(gpu_grads) == [num |-> SumSeq(gpu_grads), den |-> 1]

\* reduce_mean(concat(gpu_grads), axis=0)
MeanGrad(gpu_grads) == [num |-> SumSeq(gpu_grads), den |-> Len(gpu_grads)]

\* zip(*grads_and_vars_all_gpus) stops at the shortest list.
ZipLen(lists) ==
    IF lists = <<>> THEN 0
    ELSE CHOOSE n \in {Len(lists[t]) : t \in 1..Len(lists)} :
            \A t \in 1..Len(lists) : n <= Len(lists[t])

RECURSIVE AverageFrom(_, _)
AverageFrom(grads_and_vars_all_gpus, k) ==
    IF k > ZipLen(grads_and_vars_all_gpus) THEN <<>>
    ELSE LET gpu_grads ==
                 SelectSeq([t \in 1..Len(grads_and_vars_all_gpus) |->
                               grads_and_vars_all_gpus[t][k].grad], IsGrad)
             var == grads_and_vars_all_gpus[1][k].var
         IN  (IF gpu_grads = <<>> THEN <<>>
              ELSE <<[grad |-> MeanGrad(gpu_grads), var |-> var]>>)
             \o AverageFrom(grads_and_vars_all_gpus, k + 1)

\* _average_grads_and_vars(grads_and_vars_all_gpus)
AverageGradsAndVars(grads_and_vars_all_gpus) ==
    AverageFrom(grads_and_vars_all_gpus, 1)

\* all_rest = None
AllRestNone == [is_none |-> TRUE, refs |-> <<>>, heap |-> <<>>]

\* [list()] * n: a list of n references to ONE list object.  refs[j] is the
\* address of the list all_rest[j] refers to, heap[a] the list at address a.
ListOfListTimes(n) ==
    [is_none |-> FALSE, refs |-> [j \in 1..n |-> 1], heap |-> << <<>> >>]

\* for j, r in enumerate(rest): all_rest[j].append(r)
RECURSIVE AppendRest(_, _, _)
AppendRest(all_rest, rest, j) ==
    IF j > Len(rest) THEN all_rest
    ELSE AppendRest([all_rest EXCEPT !.heap[all_rest.refs[j]] = Append(@, rest[j])],
                    rest, j + 1)

TowerForAlwaysFirst(self, i) == self.towers[1]

\* self.towers[i]
TowerFor(self, i) == self.towers[i]

\* The locals of the loop before its first pass.
LoopStart ==
    [calls |-> <<>>,
     all_grads_and_vars |-> <<>>,
     all_loss |-> <<>>,
     all_loss_per_item |-> <<>>,
     all_rest |-> AllRestNone]

\* One pass of `for i, shard_data in enumerate(input_batches)`.
LoopBody(self, i, shard_data, env, acc) ==
    LET tower == TowerFor(self, i)
        return_values_to_be_averaged == UpdateFromExternalBatch(tower, shard_data, env)
        grads_and_vars == return_values_to_be_averaged[1]
        loss == return_values_to_be_averaged[2]
        loss_per_item == return_values_to_be_averaged[3]
        rest == SubSeq(return_values_to_be_averaged, 4, Len(return_values_to_be_averaged))
        all_rest == IF acc.all_rest.is_none THEN ListOfListTimes(Len(rest))
                    ELSE acc.all_rest
    IN  [calls |-> Append(acc.calls, [tower |-> tower, shard |-> shard_data]),
         all_grads_and_vars |-> Append(acc.all_grads_and_vars, grads_and_vars),
         all_loss |-> Append(acc.all_loss, loss),
         all_loss_per_item |-> Append(acc.all_loss_per_item, loss_per_item),
         all_rest |-> AppendRest(all_rest, rest, 1)]

RECURSIVE Loop(_, _, _, _, _)
Loop(self, input_batches, i, env, acc) ==
    IF i > Len(input_batches) THEN acc
    ELSE Loop(self, input_batches, i + 1, env,
              LoopBody(self, i, input_batches[i], env, acc))

\* tf.reduce_mean(tf.stack(all_loss, axis=0))
ReduceMeanStack(all_loss) == [num |-> SumSeq(all_loss), den |-> Len(all_loss)]

ConcatLossPerItemReversed(all_loss_per_item) == Concat(Reverse(all_loss_per_item))

\* tf.concat(all_loss_per_item, axis=0)
ConcatLossPerItem(all_loss_per_item) == Concat(all_loss_per_item)

\* ret: the three averaged values, then one concatenation per entry of
\* all_rest.
Ret(acc) ==
    <<AverageGradsAndVars(acc.all_grads_and_vars),
      ReduceMeanStack(acc.all_loss),
      ConcatLossPerItem(acc.all_loss_per_item)>>
    \o [j \in 1..Len(acc.all_rest.refs) |->
           Concat(acc.all_rest.heap[acc.all_rest.refs[j]])]

NoCall ==
    [status |-> "none", batch |-> <<>>, env |-> [reporting |-> <<>>, num_rest |-> 0],
     input_batches |-> <<>>, tower_calls |-> <<>>, returns |-> <<>>, ret |-> <<>>]

\* _graph_fn_calculate_update_from_external_batch(*inputs), after the
\* splitter has returned input_batches.
CalculateUpdateFromExternalBatch(self, batch, input_batches, env) ==
    LET call == [NoCall EXCEPT !.batch = batch, !.env = env,
                               !.input_batches = input_batches]
    IN  IF ~(Len(input_batches) = self.num_gpus)
        THEN [call EXCEPT !.status = "AssertionError"]
        ELSE LET acc == Loop(self, input_batches, 1, env, LoopStart)
             IN  IF acc.all_rest.is_none
                 THEN [call EXCEPT !.status = "TypeError", !.tower_calls = acc.calls]
                 ELSE [call EXCEPT
                         !.status = "returned",
                         !.tower_calls = acc.calls,
                         !.returns = [i \in 1..Len(input_batches) |->
                                         UpdateFromExternalBatch(acc.calls[i].tower,
                                                                 input_batches[i], env)],
                         !.ret = Ret(acc)]

MultiGpuIdle ==
    [self |-> MultiGpuSyncOptimizerInit,
     set_replicas_calls |-> 0,
     last_set_replicas |-> "not_called",
     last_devices |-> 0,
     prev_batch_splitter |-> None,
     call |-> NoCall]

MGInit == mg = MultiGpuIdle

\* optimizer.set_replicas(towers, loss_name, devices) with one tower per
\* device; it may be called again once after a call that succeeded.
SetReplicas ==
    /\ mg.call.status = "none"
    /\ mg.set_replicas_calls = 0 \/ (mg.set_replicas_calls = 1 /\ mg.last_set_replicas = "none")
    /\ \E n \in 0..MaxGpus :
          LET towers == [i \in 1..n |-> i]
              devices == [i \in 1..n |-> i]
              done == SetReplicasOp(mg.self, towers, devices)
          IN  mg' = [mg EXCEPT !.self = done.self,
                               !.set_replicas_calls = mg.set_replicas_calls + 1,
                               !.last_set_replicas = done.raised,
                               !.last_devices = n,
                               !.prev_batch_splitter = mg.self.batch_splitter]
    /\ UNCHANGED <<rb, w, ppo, agent, pipe>>

\* calculate_update_from_external_batch on an optimizer without a
\* BatchSplitter: self.batch_splitter.split_batch fails on None.
CalculateWithoutSplitter ==
    /\ mg.call.status = "none"
    /\ mg.self.batch_splitter = None
    /\ mg' = [mg EXCEPT !.call.status = "AttributeError"]
    /\ UNCHANGED <<rb, w, ppo, agent, pipe>>

\* calculate_update_from_external_batch(*inputs)
CalculateUpdate ==
    /\ mg.call.status = "none"
    /\ mg.self.batch_splitter # None
    /\ \E n \in 1..MaxBatchItems, num_rest \in 0..MaxRest,
          reporting \in [1..MaxVars -> Reportings] :
          /\ n >= mg.self.batch_splitter
          /\ LET batch == [x \in 1..n |-> x]
                 env == [reporting |-> reporting, num_rest |-> num_rest]
             IN  \E input_batches \in SplitBatch(mg.self.batch_splitter, batch) :
                    mg' = [mg EXCEPT !.call =
                            CalculateUpdateFromExternalBatch(mg.self, batch, input_batches, env)]
    /\ UNCHANGED <<rb, w, ppo, agent, pipe>>

(***************************************************************************)
(* Properties of MultiGpuSyncOptimizer.                                    *)
(***************************************************************************)
\* C11: calculate_update_from_external_batch works on exactly num_gpus
\* shards and calls update_from_external_batch exactly once on each tower,
\* tower i with shard i and no other, in device order; a shard count other
\* than num_gpus fails the assertion before any tower is called.
C11_EachTowerGetsItsShard ==
    /\ mg.call.status = "returned" =>
          /\ Len(mg.call.input_batches) = mg.self.num_gpus
          /\ Len(mg.self.towers) = mg.self.num_gpus
          /\ Len(mg.call.tower_calls) = mg.self.num_gpus
          /\ \A i \in 1..mg.self.num_gpus :
                /\ mg.call.tower_calls[i].tower = mg.self.towers[i]
                /\ mg.call.tower_calls[i].shard = mg.call.input_batches[i]
          /\ \A t \in 1..Len(mg.self.towers) :
                Cardinality({i \in 1..Len(mg.call.tower_calls) :
                                mg.call.tower_calls[i].tower = mg.self.towers[t]}) = 1
    /\ (mg.call.status \in {"returned", "AssertionError", "TypeError"}
            /\ Len(mg.call.input_batches) # mg.self.num_gpus) =>
          /\ mg.call.status = "AssertionError"
          /\ mg.call.tower_calls = <<>>
    /\ mg.call.status = "AssertionError" =>
          Len(mg.call.input_batches) # mg.self.num_gpus

C11_Witness ==
    /\ mg.call.status = "returned"
    /\ mg.self.num_gpus = MaxGpus
    /\ Len(mg.call.tower_calls) = MaxGpus
    /\ Len(mg.call.batch) > MaxGpus
    /\ mg.call.tower_calls[MaxGpus].tower = MaxGpus
    /\ mg.call.tower_calls[MaxGpus].shard = mg.call.input_batches[MaxGpus]

\* The other case of C11: the shard count differs from num_gpus.
C11_AssertionReached ==
    /\ mg.call.status = "AssertionError"
    /\ Len(mg.call.input_batches) > mg.self.num_gpus
    /\ mg.call.tower_calls = <<>>

\* C12: _average_grads_and_vars averages per variable across towers: for
\* each variable position k for which every tower reports a gradient, the
\* output has exactly one pair (mean over all towers of the k-th gradient,
\* the k-th variable), and the pairs are in the towers' variable order.
C12_GradsAveragedPerVariable ==
    mg.call.status = "returned" =>
        LET out == mg.call.ret[1]
            towers == 1..Len(mg.call.returns)
            grad(t, k) == mg.call.returns[t][1][k].grad
        IN  /\ \A k \in 1..MaxVars :
                  (\A t \in towers : grad(t, k) # None) =>
                      /\ Cardinality({p \in 1..Len(out) : out[p].var = k}) = 1
                      /\ \A p \in 1..Len(out) :
                            out[p].var = k =>
                                /\ out[p].grad.den = Cardinality(towers)
                                /\ out[p].grad.num =
                                      SumSeq([t \in towers |-> grad(t, k)])
            /\ \A p, q \in 1..Len(out) : p < q => out[p].var < out[q].var

C12_Witness ==
    /\ mg.call.status = "returned"
    /\ Len(mg.call.returns) = MaxGpus
    /\ \E k \in 1..MaxVars : mg.call.env.reporting[k] = "all"
    /\ \E k \in 1..MaxVars : mg.call.env.reporting[k] = "none"
    /\ Len(mg.call.ret[1]) = MaxVars - 1
    /\ mg.call.ret[1][1].grad.den = MaxGpus

\* C13: the returned loss is the plain average of the towers' losses and
\* the returned loss-per-item is the concatenation of the towers'
\* loss-per-item vectors in tower order: one entry per item of the un-split
\* batch, in the order of the shards.
C13_LossAveragedLossPerItemConcatenated ==
    mg.call.status = "returned" =>
        LET towers == 1..Len(mg.call.returns)
        IN  /\ mg.call.ret[2].num = SumSeq([t \in towers |-> mg.call.returns[t][2]])
            /\ mg.call.ret[2].den = mg.self.num_gpus
            /\ Len(mg.call.ret[3]) = Len(mg.call.batch)
            /\ \A x \in 1..Len(mg.call.batch) :
                  mg.call.ret[3][x] = LossOfItem(mg.call.batch[x])
            /\ \A t \in towers : \A x \in 1..Len(mg.call.returns[t][3]) :
                  mg.call.ret[3][SumSeq([u \in 1..(t - 1) |->
                                            Len(mg.call.returns[u][3])]) + x]
                      = mg.call.returns[t][3][x]

C13_Witness ==
    /\ mg.call.status = "returned"
    /\ mg.self.num_gpus = MaxGpus
    /\ Len(mg.call.batch) = MaxBatchItems
    /\ Len(mg.call.input_batches[1]) > 1
    /\ Len(mg.call.ret[3]) = MaxBatchItems
    /\ mg.call.ret[2].den = MaxGpus

\* C14: for every additional return value j of the towers, the j-th extra
\* output is the concatenation, in tower order, of the towers' j-th extra
\* return values only, for any number of extra return values; values of
\* different extra positions are never mixed.
C14_ExtraOutputsConcatenatedPerPosition ==
    mg.call.status = "returned" =>
        /\ Len(mg.call.ret) = 3 + mg.call.env.num_rest
        /\ \A j \in 1..mg.call.env.num_rest :
              mg.call.ret[3 + j] =
                  Concat([t \in 1..Len(mg.call.returns) |-> mg.call.returns[t][3 + j]])

\* C15: set_replicas needs at least two devices: with fewer it fails its
\* assertion and creates no BatchSplitter (batch_splitter is left as it was,
\* None on a new optimizer); with n >= 2 devices it sets num_gpus = n and
\* creates a BatchSplitter for n shards.
C15_SetReplicasNeedsTwoDevices ==
    mg.set_replicas_calls > 0 =>
        /\ mg.last_devices < 2 =>
              /\ mg.last_set_replicas = "AssertionError"
              /\ mg.self.batch_splitter = mg.prev_batch_splitter
              /\ (mg.set_replicas_calls = 1 => mg.self.batch_splitter = None)
        /\ mg.last_devices >= 2 =>
              /\ mg.last_set_replicas = "none"
              /\ mg.self.num_gpus = mg.last_devices
              /\ mg.self.batch_splitter = mg.last_devices

C15_Witness ==
    /\ mg.set_replicas_calls = 1
    /\ mg.last_devices = 1
    /\ mg.last_set_replicas = "AssertionError"
    /\ mg.self.batch_splitter = None
    /\ mg.self.num_gpus = 1

(***************************************************************************)
(* IMPALAAgent.__init__ (rlgraph/agents/impala_agent.py).                  *)
(*                                                                         *)
(* The keyword arguments are a function from the keys the caller passed to *)
(* their values.  The value of "type" is the string passed; every other    *)
(* key holds "caller", a spec object of the caller's.  The base Agent      *)
(* constructor, FIFOQueue, EnvironmentStepper and IMPALALossFunction are   *)
(* not part of this file: the base constructor is modelled as storing the  *)
(* keywords it is given, the others by the name of the object created.     *)
(***************************************************************************)
AgentTypes == {"explorer", "learner"}

\* The values a caller may pass as type, one of them not an agent type.
TypeValues == AgentTypes \cup {"actor"}

\* The keys of **kwargs the constructor looks at, besides "type".
SpecKeys ==
    {"exploration_spec", "optimizer_spec", "observe_spec", "update_spec",
     "preprocessing_spec", "action_space"}

ApiNames == {"perform_n_steps_and_insert_into_fifo", "reset", "update_from_memory"}

\* The kwargs dict of a call: type_kw is "absent" when no type is passed.
Kwargs(type_kw, keys) ==
    [k \in keys \cup (IF type_kw = "absent" THEN {} ELSE {"type"}) |->
        IF k = "type" THEN type_kw ELSE "caller"]

\* kwargs.pop(key, default): the value ...
Pop(kwargs, key, default) ==
    IF key \in DOMAIN kwargs THEN kwargs[key] ELSE default

\* ... and the dict that is left.
Without(kwargs, popped) ==
    [k \in DOMAIN kwargs \ popped |-> kwargs[k]]

\* The object before __init__ has assigned anything.
NewAgent ==
    [status |-> "none", type |-> "unset", super_init |-> FALSE,
     preprocessing_spec |-> "unset", exploration_spec |-> "unset",
     optimizer_spec |-> "unset", observe_spec |-> "unset",
     update_spec |-> "unset", environment_spec |-> "unset",
     fifo_queue |-> "unset", environment_stepper |-> "unset",
     loss_function |-> "unset", api |-> {}]

AssertTypeAnything(type_) == TRUE

\* assert type_ in ["explorer", "learner"]
AssertType(type_) == type_ \in AgentTypes

\* preprocessing_spec["preprocessors"]["previous_action"] = [...]
AddPreviousAction(preprocessing_spec) ==
    IF preprocessing_spec = "caller"
    THEN "caller+previous_action"
    ELSE "default+previous_action"

\* Lines 66-88: the locals after the role-specific pieces are removed, and
\* what is left of kwargs.  kwargs.get("action_space") is None when the
\* caller passed no action_space, and .num_categories of None raises.
FixSpec(type, kwargs, environment_spec) ==
    LET exploration_spec == Pop(kwargs, "exploration_spec", "None")
        optimizer_spec == Pop(kwargs, "optimizer_spec", "None")
        observe_spec == Pop(kwargs, "observe_spec", "None")
        popped == {"exploration_spec", "optimizer_spec", "observe_spec",
                   "update_spec"}
    IN  IF type = "learner"
        THEN [raised |-> "none",
              exploration_spec |-> "None",
              observe_spec |-> "None",
              optimizer_spec |-> optimizer_spec,
              update_spec |-> Pop(kwargs, "update_spec", "None"),
              environment_spec |-> "None",
              preprocessing_spec |-> "None",
              kwargs |-> Without(kwargs, popped)]
        ELSE [raised |-> IF "action_space" \in DOMAIN kwargs
                         THEN "none" ELSE "AttributeError",
              exploration_spec |-> exploration_spec,
              observe_spec |-> observe_spec,
              optimizer_spec |-> "None",
              update_spec |-> Pop(kwargs, "update_spec", "do_updates=False"),
              environment_spec |-> IF environment_spec = "None"
                                   THEN "deepmind_lab" ELSE environment_spec,
              preprocessing_spec |->
                  AddPreviousAction(Pop(kwargs, "preprocessing_spec", "default")),
              kwargs |-> Without(kwargs, popped \cup {"preprocessing_spec"})]

\* The keywords the call of the base constructor spells out (lines 92-98).
SuperKeywords ==
    {"preprocessing_spec", "network_spec", "exploration_spec",
     "optimizer_spec", "observe_spec", "update_spec", "name"}

\* f(key=value, **kwargs) with key also in kwargs is a TypeError.
SuperInitRaises(kwargs) == (DOMAIN kwargs \cap SuperKeywords) # {}

\* define_api_methods: the API-methods this class adds, by type.
DefineApiMethods(type) ==
    IF type = "explorer"
    THEN {"perform_n_steps_and_insert_into_fifo", "reset"}
    ELSE {"update_from_memory"}

\* Lines 102-171: the sub-components of the agent, by type.
AddSubComponents(self) ==
    IF self.type = "explorer"
    THEN [self EXCEPT !.fifo_queue = "FIFOQueue",
                      !.loss_function = "None",
                      !.environment_stepper = "EnvironmentStepper",
                      !.api = DefineApiMethods(self.type),
                      !.status = "constructed"]
    ELSE [self EXCEPT !.fifo_queue = "FIFOQueue",
                      !.environment_stepper = "None",
                      !.loss_function = "IMPALALossFunction",
                      !.api = DefineApiMethods(self.type),
                      !.status = "constructed"]

\* IMPALAAgent(environment_spec=..., **kwargs): the object the call leaves,
\* its status the exception raised or "constructed".
IMPALAAgentInit(environment_spec, kwargs) ==
    LET type_ == Pop(kwargs, "type", "explorer")
        kwargs1 == Without(kwargs, {"type"})
    IN  IF ~AssertType(type_)
        THEN [NewAgent EXCEPT !.status = "AssertionError"]
        ELSE
        LET self1 == [NewAgent EXCEPT !.type = type_]
            fixed == FixSpec(self1.type, kwargs1, environment_spec)
        IN  IF fixed.raised # "none"
            THEN [self1 EXCEPT !.status = fixed.raised]
            ELSE IF SuperInitRaises(fixed.kwargs)
            THEN [self1 EXCEPT !.status = "TypeError"]
            ELSE AddSubComponents(
                     [self1 EXCEPT !.super_init = TRUE,
                                   !.preprocessing_spec = fixed.preprocessing_spec,
                                   !.exploration_spec = fixed.exploration_spec,
                                   !.optimizer_spec = fixed.optimizer_spec,
                                   !.observe_spec = fixed.observe_spec,
                                   !.update_spec = fixed.update_spec,
                                   !.environment_spec = fixed.environment_spec])

NoApiCall == [name |-> "none", result |-> "none"]

AgentIdle ==
    [self |-> NewAgent, type_kw |-> "absent", keys |-> {},
     environment_spec |-> "None", last_call |-> NoApiCall]

AgentInit == agent = AgentIdle

\* A caller constructs an IMPALAAgent.
Construct ==
    /\ agent.self.status = "none"
    /\ \E type_kw \in TypeValues \cup {"absent"},
          keys \in SUBSET SpecKeys,
          environment_spec \in {"None", "caller"} :
          agent' = [agent EXCEPT
                       !.self = IMPALAAgentInit(environment_spec,
                                                Kwargs(type_kw, keys)),
                       !.type_kw = type_kw,
                       !.keys = keys,
                       !.environment_spec = environment_spec]
    /\ UNCHANGED <<rb, w, ppo, mg, pipe>>

\* A caller calls an API-method of the constructed agent by name.
CallApiMethod ==
    /\ agent.self.status = "constructed"
    /\ agent.last_call = NoApiCall
    /\ \E name \in ApiNames :
          agent' = [agent EXCEPT !.last_call =
                       [name |-> name,
                        result |-> IF name \in agent.self.api
                                   THEN "called" ELSE "no such API-method"]]
    /\ UNCHANGED <<rb, w, ppo, mg, pipe>>

\* The type the constructor works with for the keywords of the call.
RequestedType == IF agent.type_kw = "absent" THEN "explorer" ELSE agent.type_kw

\* C17: an IMPALAAgent's type is always "explorer" or "learner": without a
\* type keyword it is "explorer", and any other value fails the assertion
\* before the base constructor runs and before a FIFOQueue is created.
C17_TypeIsExplorerOrLearner ==
    agent.self.status # "none" =>
        /\ agent.self.type \in AgentTypes \cup {"unset"}
        /\ agent.self.status = "constructed" => agent.self.type \in AgentTypes
        /\ agent.type_kw = "absent" => agent.self.type = "explorer"
        /\ agent.type_kw \notin AgentTypes \cup {"absent"} =>
              /\ agent.self.status = "AssertionError"
              /\ agent.self.type = "unset"
              /\ ~agent.self.super_init
              /\ agent.self.fifo_queue = "unset"

C17_Witness ==
    /\ agent.type_kw = "actor"
    /\ agent.self.status = "AssertionError"
    /\ ~agent.self.super_init
    /\ agent.self.fifo_queue = "unset"

C17_DefaultReached ==
    /\ agent.type_kw = "absent"
    /\ agent.self.status = "constructed"
    /\ agent.self.type = "explorer"

\* C18: whatever the caller passed, a learner is built with exploration_spec,
\* observe_spec, environment_spec and preprocessing_spec None, without an
\* environment stepper, and exposes update_from_memory only; an explorer is
\* built with optimizer_spec None and no loss function, its update_spec is
\* do_updates=False unless passed, and it exposes
\* perform_n_steps_and_insert_into_fifo and reset only.
C18_RoleSpecificPiecesRemoved ==
    (/\ agent.self.status # "none"
     /\ RequestedType \in AgentTypes
     /\ "action_space" \in agent.keys) =>
        /\ agent.self.status = "constructed"
        /\ agent.self.type = RequestedType
        /\ agent.self.type = "learner" =>
              /\ agent.self.exploration_spec = "None"
              /\ agent.self.observe_spec = "None"
              /\ agent.self.environment_spec = "None"
              /\ agent.self.preprocessing_spec = "None"
              /\ agent.self.environment_stepper = "None"
              /\ agent.self.api = {"update_from_memory"}
        /\ agent.self.type = "explorer" =>
              /\ agent.self.optimizer_spec = "None"
              /\ agent.self.loss_function = "None"
              /\ "update_spec" \notin agent.keys =>
                    agent.self.update_spec = "do_updates=False"
              /\ agent.self.api =
                    {"perform_n_steps_and_insert_into_fifo", "reset"}

(***************************************************************************)
(* The IMPALA pipeline: explorers and a learner around the shared          *)
(* FIFOQueue (rlgraph/agents/impala_agent.py).                             *)
(*                                                                         *)
(* Every agent creates its FIFOQueue under the variable scope              *)
(* "shared-fifo-queue", so all of them work on one queue.  The FIFOQueue   *)
(* component itself is not part of this file; it is modelled as a bounded  *)
(* first-in-first-out queue whose insert waits while the queue is full and *)
(* whose get_records(n) waits until n records are there.  A record is      *)
(* identified by the explorer that made it and the number of the call.     *)
(***************************************************************************)
Learner == 0

Explorers == 1..NumExplorers

PipelineAgents == {Learner} \cup Explorers

\* The type each agent of the pipeline was constructed with.
PipelineAgentType(a) == IF a = Learner THEN "learner" ELSE "explorer"

\* The API-methods the agent has after its constructor.
PipelineAgentApi(a) ==
    IMPALAAgentInit("None",
        Kwargs(PipelineAgentType(a), {"action_space", "update_spec"})).api

FIFOQueueCanInsert(queue, capacity) == Len(queue) < capacity

FIFOQueueInsertRecords(queue, record) == Append(queue, record)

FIFOQueueCanGet(queue, num_records) == Len(queue) >= num_records

FIFOQueueGetRecords(queue, num_records) ==
    [records |-> SubSeq(queue, 1, num_records),
     queue |-> SubSeq(queue, num_records + 1, Len(queue))]

PerformNStepsWithoutInsert(queue, record) == queue

\* perform_n_steps_and_insert_into_fifo: the queue after the insert_op.
PerformNStepsAndInsertIntoFifo(queue, record) ==
    FIFOQueueInsertRecords(queue, record)

\* update_from_memory: the records pulled and the queue that is left.
UpdateFromMemory(queue, update_spec) ==
    FIFOQueueGetRecords(queue, update_spec.batch_size)

PipelineIdle ==
    [capacity |-> 1, update_spec |-> [batch_size |-> 1], queue |-> <<>>,
     inserted |-> <<>>, delivered |-> <<>>]

PipelineInit ==
    \E capacity \in 1..MaxFifoCapacity, batch_size \in 1..MaxFifoBatchSize :
        pipe = [PipelineIdle EXCEPT !.capacity = capacity,
                                    !.update_spec = [batch_size |-> batch_size]]

\* An agent that has the API-method steps its environment and enqueues the
\* record of the run.
CallPerformNSteps ==
    /\ Len(pipe.inserted) < MaxRecords
    /\ FIFOQueueCanInsert(pipe.queue, pipe.capacity)
    /\ \E a \in PipelineAgents :
          /\ "perform_n_steps_and_insert_into_fifo" \in PipelineAgentApi(a)
          /\ LET record == [agent |-> a, call |-> Len(pipe.inserted) + 1]
             IN  pipe' = [pipe EXCEPT
                     !.queue = PerformNStepsAndInsertIntoFifo(pipe.queue, record),
                     !.inserted = Append(pipe.inserted, record)]
    /\ UNCHANGED <<rb, w, ppo, mg, agent>>

\* An agent that has the API-method pulls a batch from the queue.
CallUpdateFromMemory ==
    /\ FIFOQueueCanGet(pipe.queue, pipe.update_spec.batch_size)
    /\ \E a \in PipelineAgents :
          /\ "update_from_memory" \in PipelineAgentApi(a)
          /\ LET got == UpdateFromMemory(pipe.queue, pipe.update_spec)
             IN  pipe' = [pipe EXCEPT
                     !.queue = got.queue,
                     !.delivered = Append(pipe.delivered,
                                          [agent |-> a, records |-> got.records])]
    /\ UNCHANGED <<rb, w, ppo, mg, agent>>

\* All records of the batches delivered so far, in the order delivered.
RECURSIVE DeliveredRecords(_)
DeliveredRecords(batches) ==
    IF batches = <<>>
    THEN <<>>
    ELSE batches[1].records \o DeliveredRecords(Tail(batches))

\* C16: only explorers enqueue and only the learner dequeues; every
\* update_from_memory gets batch_size records, and the records delivered so
\* far followed by those still queued are exactly the records inserted, in
\* the order of the perform_n_steps_and_insert_into_fifo calls: each batch is
\* the oldest records not yet dequeued, none delivered twice, none skipped.
C16_FifoOrderFromExplorersToLearner ==
    /\ \A i \in 1..Len(pipe.inserted) :
          PipelineAgentType(pipe.inserted[i].agent) = "explorer"
    /\ \A i \in 1..Len(pipe.delivered) :
          /\ PipelineAgentType(pipe.delivered[i].agent) = "learner"
          /\ Len(pipe.delivered[i].records) = pipe.update_spec.batch_size
    /\ DeliveredRecords(pipe.delivered) \o pipe.queue = pipe.inserted
    /\ \A i, j \in 1..Len(pipe.inserted) :
          pipe.inserted[i] = pipe.inserted[j] => i = j

C16_Witness ==
    /\ pipe.update_spec.batch_size = 2
    /\ Len(pipe.delivered) = 2
    /\ pipe.delivered[1].records[1].agent # pipe.delivered[1].records[2].agent
    /\ pipe.delivered[2].records = SubSeq(pipe.inserted, 3, 4)

(***************************************************************************)
(* The specifications: one per component.                                  *)
(***************************************************************************)
Init ==
    /\ RBInit
    /\ w = WorkerIdle
    /\ ppo = PPOIdle
    /\ mg = MultiGpuIdle
    /\ agent = AgentIdle
    /\ pipe = PipelineIdle

Next == RBInsert

Spec == Init /\ [][Next]_vars

WorkerInitAll ==
    /\ WInit
    /\ rb = RingBufferIdle
    /\ ppo = PPOIdle
    /\ mg = MultiGpuIdle
    /\ agent = AgentIdle
    /\ pipe = PipelineIdle

WorkerNext ==
    \/ ExecuteTimesteps
    \/ ExecuteEpisodes
    \/ ExecuteDirect
    \/ StartEpisode
    \/ LoopExit
    \/ Step
    \/ EndEpisode
    \/ Finish

WorkerSpec == WorkerInitAll /\ [][WorkerNext]_vars

PPOInitAll ==
    /\ PPOInit
    /\ rb = RingBufferIdle
    /\ w = WorkerIdle
    /\ mg = MultiGpuIdle
    /\ agent = AgentIdle
    /\ pipe = PipelineIdle

PPONext ==
    \/ CallLossPerItem
    \/ CallLoss

PPOSpec == PPOInitAll /\ [][PPONext]_vars

MultiGpuInitAll ==
    /\ MGInit
    /\ rb = RingBufferIdle
    /\ w = WorkerIdle
    /\ ppo = PPOIdle
    /\ agent = AgentIdle
    /\ pipe = PipelineIdle

MultiGpuNext ==
    \/ SetReplicas
    \/ CalculateWithoutSplitter
    \/ CalculateUpdate

MultiGpuSpec == MultiGpuInitAll /\ [][MultiGpuNext]_vars

AgentInitAll ==
    /\ AgentInit
    /\ rb = RingBufferIdle
    /\ w = WorkerIdle
    /\ ppo = PPOIdle
    /\ mg = MultiGpuIdle
    /\ pipe = PipelineIdle

AgentNext ==
    \/ Construct
    \/ CallApiMethod

AgentSpec == AgentInitAll /\ [][AgentNext]_vars

PipelineInitAll ==
    /\ PipelineInit
    /\ rb = RingBufferIdle
    /\ w = WorkerIdle
    /\ ppo = PPOIdle
    /\ mg = MultiGpuIdle
    /\ agent = AgentIdle

PipelineNext ==
    \/ CallPerformNSteps
    \/ CallUpdateFromMemory

PipelineSpec == PipelineInitAll /\ [][PipelineNext]_vars

=============================================================================
